---- MODULE Spec2Model ----
(***************************************************************************)
(* Casio watch stock notifier (src/index.js).  The file holds two          *)
(* revisions of the same program:                                          *)
(*   - the keyword revision  (lines 1-271):  substring classifier, no      *)
(*     re-entrancy guard, 60 s interval;                                   *)
(*   - the guarded revision  (lines 273-572): cheerio classifier,          *)
(*     isChecking guard, 30 s interval.                                    *)
(* The variable rev selects the revision a behaviour runs.  JavaScript is  *)
(* single threaded: every action below is one run-to-await segment of a    *)
(* handler, which the event loop executes atomically.                      *)
(***************************************************************************)
EXTENDS Integers, Sequences, FiniteSets, TLC

VARIABLES
    rev,              \* "keyword" | "guarded": which revision of index.js runs
    lastStockStatus,  \* index.js:29 / :307
    isChecking,       \* index.js:309 (guarded revision only; stays FALSE in keyword)
    cyc,              \* the checkStock invocations in flight, by slot
    startupPending,   \* the setTimeout(checkStock, 5000) that has not fired yet
    chk,              \* the /check command handler
    tst,              \* the /test command handler
    started,          \* number of checkStock invocations that went past the guard
    alerts,           \* number of bot.telegram.sendMessage(CHAT_ID, <stock alert>) calls
    hist,             \* one record per cycle that reached the classifier
    ev,               \* the last handler segment that ran
    owed,             \* a poll cycle stored 'available' and its alert has not been delivered
    now,              \* Date.now(), in milliseconds
    lastHealthCheck,  \* index.js:30 / :308
    reqs,             \* one record per answered health request or /status command
    boot,             \* the start of the process: its program, configuration, progress
    html,             \* classifier harness: the argument of checkStockFromHTML
    inStock           \* classifier harness: [called, value], the call's return value

pollVars == <<rev, lastStockStatus, isChecking, cyc, startupPending, chk, tst,
              started, alerts, hist, ev, owed>>
classVars == <<html, inStock>>
sideVars == <<now, lastHealthCheck, reqs, boot>>
vars == <<rev, lastStockStatus, isChecking, cyc, startupPending, chk, tst,
          started, alerts, hist, ev, owed, now, lastHealthCheck, reqs, boot,
          html, inStock>>

-----------------------------------------------------------------------------
(* Text: a JavaScript string is a sequence of characters.  An ASCII        *)
(* character is the string of that character; any other character is the   *)
(* string "U+" and the four hexadecimal digits of its code point (so are   *)
(* the grave accent, U+0060, and the vertical tab, U+000B).  The characters *)
(* of the model are ASCII, Latin-1, the Greek and Coptic block U+0370 to    *)
(* U+03FF, U+0130, U+0307, U+212A, U+212B and the white space of          *)
(* ECMAScript.                                                              *)

UpperChars == <<"A","B","C","D","E","F","G","H","I","J","K","L","M","N","O",
                "P","Q","R","S","T","U","V","W","X","Y","Z","U+00C0","U+00C1",
                "U+00C2","U+00C3","U+00C4","U+00C5","U+00C6","U+00C7",
                "U+00C8","U+00C9","U+00CA","U+00CB","U+00CC","U+00CD",
                "U+00CE","U+00CF","U+00D0","U+00D1","U+00D2","U+00D3",
                "U+00D4","U+00D5","U+00D6","U+00D8","U+00D9","U+00DA",
                "U+00DB","U+00DC","U+00DD","U+00DE","U+0370","U+0372",
                "U+0376","U+037F","U+0386","U+0388","U+0389","U+038A",
                "U+038C","U+038E","U+038F","U+0391","U+0392","U+0393",
                "U+0394","U+0395","U+0396","U+0397","U+0398","U+0399",
                "U+039A","U+039B","U+039C","U+039D","U+039E","U+039F",
                "U+03A0","U+03A1","U+03A3","U+03A4","U+03A5","U+03A6",
                "U+03A7","U+03A8","U+03A9","U+03AA","U+03AB","U+03CF",
                "U+03D8","U+03DA","U+03DC","U+03DE","U+03E0","U+03E2",
                "U+03E4","U+03E6","U+03E8","U+03EA","U+03EC","U+03EE",
                "U+03F4","U+03F7","U+03F9","U+03FA","U+03FD","U+03FE",
                "U+03FF","U+212A","U+212B">>
LowerChars == <<"a","b","c","d","e","f","g","h","i","j","k","l","m","n","o",
                "p","q","r","s","t","u","v","w","x","y","z","U+00E0","U+00E1",
                "U+00E2","U+00E3","U+00E4","U+00E5","U+00E6","U+00E7",
                "U+00E8","U+00E9","U+00EA","U+00EB","U+00EC","U+00ED",
                "U+00EE","U+00EF","U+00F0","U+00F1","U+00F2","U+00F3",
                "U+00F4","U+00F5","U+00F6","U+00F8","U+00F9","U+00FA",
                "U+00FB","U+00FC","U+00FD","U+00FE","U+0371","U+0373",
                "U+0377","U+03F3","U+03AC","U+03AD","U+03AE","U+03AF",
                "U+03CC","U+03CD","U+03CE","U+03B1","U+03B2","U+03B3",
                "U+03B4","U+03B5","U+03B6","U+03B7","U+03B8","U+03B9",
                "U+03BA","U+03BB","U+03BC","U+03BD","U+03BE","U+03BF",
                "U+03C0","U+03C1","U+03C3","U+03C4","U+03C5","U+03C6",
                "U+03C7","U+03C8","U+03C9","U+03CA","U+03CB","U+03D7",
                "U+03D9","U+03DB","U+03DD","U+03DF","U+03E1","U+03E3",
                "U+03E5","U+03E7","U+03E9","U+03EB","U+03ED","U+03EF",
                "U+03B8","U+03F8","U+03F2","U+03FB","U+037B","U+037C",
                "U+037D","k","U+00E5">>

\* the simple lower-case mapping of the characters above, position by position
LowerMap ==
    [c \in {UpperChars[i] : i \in 1..Len(UpperChars)} |->
        LowerChars[CHOOSE i \in 1..Len(UpperChars) : UpperChars[i] = c]]

\* String.prototype.toLowerCase on one character whose lower case is one
\* character and does not depend on its neighbours
ToLowerChar(c) == IF c \in DOMAIN LowerMap THEN LowerMap[c] ELSE c

\* the characters with a case: the letters of the categories Lu, Ll and Lt
\* and U+00AA, U+00BA and U+037A, which are lower case without being letters
\* of these
Cased == {"A","B","C","D","E","F","G","H","I","J","K","L","M","N","O","P","Q",
          "R","S","T","U","V","W","X","Y","Z","a","b","c","d","e","f","g","h",
          "i","j","k","l","m","n","o","p","q","r","s","t","u","v","w","x","y",
          "z","U+00AA","U+00B5","U+00BA","U+00C0","U+00C1","U+00C2","U+00C3",
          "U+00C4","U+00C5","U+00C6","U+00C7","U+00C8","U+00C9","U+00CA",
          "U+00CB","U+00CC","U+00CD","U+00CE","U+00CF","U+00D0","U+00D1",
          "U+00D2","U+00D3","U+00D4","U+00D5","U+00D6","U+00D8","U+00D9",
          "U+00DA","U+00DB","U+00DC","U+00DD","U+00DE","U+00DF","U+00E0",
          "U+00E1","U+00E2","U+00E3","U+00E4","U+00E5","U+00E6","U+00E7",
          "U+00E8","U+00E9","U+00EA","U+00EB","U+00EC","U+00ED","U+00EE",
          "U+00EF","U+00F0","U+00F1","U+00F2","U+00F3","U+00F4","U+00F5",
          "U+00F6","U+00F8","U+00F9","U+00FA","U+00FB","U+00FC","U+00FD",
          "U+00FE","U+00FF","U+0130","U+0370","U+0371","U+0372","U+0373",
          "U+0376","U+0377","U+037A","U+037B","U+037C","U+037D","U+037F",
          "U+0386","U+0388","U+0389","U+038A","U+038C","U+038E","U+038F",
          "U+0390","U+0391","U+0392","U+0393","U+0394","U+0395","U+0396",
          "U+0397","U+0398","U+0399","U+039A","U+039B","U+039C","U+039D",
          "U+039E","U+039F","U+03A0","U+03A1","U+03A3","U+03A4","U+03A5",
          "U+03A6","U+03A7","U+03A8","U+03A9","U+03AA","U+03AB","U+03AC",
          "U+03AD","U+03AE","U+03AF","U+03B0","U+03B1","U+03B2","U+03B3",
          "U+03B4","U+03B5","U+03B6","U+03B7","U+03B8","U+03B9","U+03BA",
          "U+03BB","U+03BC","U+03BD","U+03BE","U+03BF","U+03C0","U+03C1",
          "U+03C2","U+03C3","U+03C4","U+03C5","U+03C6","U+03C7","U+03C8",
          "U+03C9","U+03CA","U+03CB","U+03CC","U+03CD","U+03CE","U+03CF",
          "U+03D0","U+03D1","U+03D2","U+03D3","U+03D4","U+03D5","U+03D6",
          "U+03D7","U+03D8","U+03D9","U+03DA","U+03DB","U+03DC","U+03DD",
          "U+03DE","U+03DF","U+03E0","U+03E1","U+03E2","U+03E3","U+03E4",
          "U+03E5","U+03E6","U+03E7","U+03E8","U+03E9","U+03EA","U+03EB",
          "U+03EC","U+03ED","U+03EE","U+03EF","U+03F0","U+03F1","U+03F2",
          "U+03F3","U+03F4","U+03F5","U+03F7","U+03F8","U+03F9","U+03FA",
          "U+03FB","U+03FC","U+03FD","U+03FE","U+03FF","U+212A","U+212B"}

\* the characters that the context of a capital sigma looks through: marks,
\* format characters, modifier letters and modifier symbols, and the
\* punctuation that stands inside a word.  U+037A is both cased and
\* case-ignorable, and is looked through.
CaseIgnorable == {"'",".",":","^","U+0060","U+00A8","U+00AD","U+00AF",
                  "U+00B4","U+00B7","U+00B8","U+0307","U+0374","U+0375",
                  "U+037A","U+0384","U+0385","U+0387","U+FEFF"}

\* a cased letter stands before position i, with only case-ignorable
\* characters between
RECURSIVE CasedBefore(_, _)
CasedBefore(s, i) ==
    IF i <= 1 THEN FALSE
    ELSE IF s[i - 1] \in CaseIgnorable THEN CasedBefore(s, i - 1)
    ELSE s[i - 1] \in Cased

\* the same, after position i
RECURSIVE CasedAfter(_, _)
CasedAfter(s, i) ==
    IF i >= Len(s) THEN FALSE
    ELSE IF s[i + 1] \in CaseIgnorable THEN CasedAfter(s, i + 1)
    ELSE s[i + 1] \in Cased

\* the lower case of the character at position i of s: a capital sigma at the
\* end of a word becomes the final sigma, the capital I with dot above
\* becomes i and a combining dot above, any other character its ToLowerChar
LowerAt(s, i) ==
    IF s[i] = "U+03A3" /\ CasedBefore(s, i) /\ ~CasedAfter(s, i) THEN <<"U+03C2">>
    ELSE IF s[i] = "U+0130" THEN <<"i", "U+0307">>
    ELSE <<ToLowerChar(s[i])>>

RECURSIVE LowerFrom(_, _)
LowerFrom(s, i) == IF i > Len(s) THEN <<>> ELSE LowerAt(s, i) \o LowerFrom(s, i + 1)

\* html.toLowerCase()
toLowerCase(s) == LowerFrom(s, 1)

\* s.includes(w): w occurs in s as a contiguous substring
includes(s, w) ==
    \E i \in 0..(Len(s) - Len(w)) : SubSeq(s, i + 1, i + Len(w)) = w

\* WhiteSpace and LineTerminator of ECMAScript, which trim strips
WhiteSpace == {" ", "\t", "\n", "\f", "\r", "U+000B", "U+00A0", "U+1680",
               "U+2000", "U+2001", "U+2002", "U+2003", "U+2004", "U+2005",
               "U+2006", "U+2007", "U+2008", "U+2009", "U+200A", "U+2028",
               "U+2029", "U+202F", "U+205F", "U+3000", "U+FEFF"}

IsSpace(c) == c \in WhiteSpace

\* String.prototype.trim
RECURSIVE trimLeft(_)
trimLeft(s) ==
    IF s # <<>> /\ IsSpace(Head(s)) THEN trimLeft(Tail(s)) ELSE s

RECURSIVE trimRight(_)
trimRight(s) ==
    IF s # <<>> /\ IsSpace(s[Len(s)]) THEN trimRight(SubSeq(s, 1, Len(s) - 1)) ELSE s

trim(s) == trimRight(trimLeft(s))

RECURSIVE Concat(_)
Concat(ss) == IF ss = <<>> THEN <<>> ELSE Head(ss) \o Concat(Tail(ss))

-----------------------------------------------------------------------------
(* Keyword revision: checkStockFromHTML, index.js:122-147                   *)

inStockKeywords == <<
    <<"a","d","d"," ","t","o"," ","c","a","r","t">>,
    <<"a","d","d"," ","t","o"," ","b","a","g">>,
    <<"b","u","y"," ","n","o","w">>,
    <<"i","n"," ","s","t","o","c","k">>,
    <<"a","v","a","i","l","a","b","l","e">>,
    <<"a","d","d","t","o","c","a","r","t">> >>

outOfStockKeywords == <<
    <<"o","u","t"," ","o","f"," ","s","t","o","c","k">>,
    <<"s","o","l","d"," ","o","u","t">>,
    <<"u","n","a","v","a","i","l","a","b","l","e">>,
    <<"n","o","t","i","f","y"," ","w","h","e","n"," ","a","v","a","i","l","a","b","l","e">>,
    <<"o","u","t","-","o","f","-","s","t","o","c","k">>,
    <<"s","o","l","d","o","u","t">>,
    <<"p","r","e","o","r","d","e","r">>,
    <<"p","r","e","-","o","r","d","e","r">> >>

\* for (const word of words) { if (lowerHtml.includes(word)) return ... }:
\* the index of the first word of the list, from position i on, that the text
\* includes; 0 when the loop runs to its end.
RECURSIVE FirstIncluded(_, _, _)
FirstIncluded(lowerHtml, words, i) ==
    IF i > Len(words) THEN 0
    ELSE IF includes(lowerHtml, words[i]) THEN i
    ELSE FirstIncluded(lowerHtml, words, i + 1)

\* A variant that scans the in-stock list before the out-of-stock list.
checkStockFromHTML_keyword_inFirst(h) ==
    LET lowerHtml == toLowerCase(h) IN
    IF FirstIncluded(lowerHtml, inStockKeywords, 1) # 0 THEN TRUE
    ELSE FALSE

checkStockFromHTML_keyword(h) ==
    LET lowerHtml == toLowerCase(h) IN
    IF FirstIncluded(lowerHtml, outOfStockKeywords, 1) # 0 THEN FALSE
    ELSE IF FirstIncluded(lowerHtml, inStockKeywords, 1) # 0 THEN TRUE
    ELSE FALSE

-----------------------------------------------------------------------------
(* Guarded revision: checkStockFromHTML, index.js:318-350                   *)
(*                                                                         *)
(* The argument is modelled after cheerio.load: either the load throws, or *)
(* it yields the document, a sequence of elements in document order.  An   *)
(* element carries what the selector and the tests read: its tag, whether  *)
(* its class list has product-form__submit, its name attribute, whether it *)
(* has a disabled attribute, and its text content.  Documents are flat (no *)
(* element of the model is nested in another).                             *)

AddToCartText == <<"A","d","d"," ","t","o"," ","c","a","r","t">>
soldOutText   == <<"s","o","l","d"," ","o","u","t">>

\* '.product-form__submit, button[name="add"], button:contains("Add to cart")'
\* (:contains is case sensitive)
MatchesSelector(e) ==
    \/ e.cls
    \/ e.tag = "button" /\ e.name = "add"
    \/ e.tag = "button" /\ includes(e.text, AddToCartText)

\* $(selector): the matching elements, in document order
Select(dom) == SelectSeq(dom, MatchesSelector)

\* .text() of a selection: the text of every element of it, concatenated
SelectionText(sel) == Concat([i \in 1..Len(sel) |-> sel[i].text])

\* the elements that the :disabled pseudo-class of cheerio's selector engine
\* can match
DisabledTags == {"button", "input", "select", "textarea", "optgroup", "option",
                 "fieldset"}

\* the :disabled pseudo-class: such an element that has the disabled attribute
\* (an option inside a disabled optgroup matches too; documents here are flat)
IsDisabledPseudo(e) == e.tag \in DisabledTags /\ e.disabled

\* .is(":disabled") is true when any element of the selection matches;
\* .attr("disabled") reads the first element of the selection
isDisabled(sel) ==
    \/ \E i \in 1..Len(sel) : IsDisabledPseudo(sel[i])
    \/ sel[1].disabled

\* A variant whose catch block answers true.
checkStockFromHTML_guarded_catchTrue(h) ==
    IF h.throws THEN TRUE
    ELSE LET addToCartButton == Select(h.dom) IN
         IF Len(addToCartButton) = 0 THEN FALSE
         ELSE LET buttonText == trim(toLowerCase(SelectionText(addToCartButton))) IN
              IF isDisabled(addToCartButton) \/ includes(buttonText, soldOutText)
              THEN FALSE
              ELSE TRUE

checkStockFromHTML_guarded(h) ==
    IF h.throws THEN FALSE                                   \* catch: return false
    ELSE LET addToCartButton == Select(h.dom) IN
         IF Len(addToCartButton) = 0 THEN FALSE
         ELSE LET buttonText == trim(toLowerCase(SelectionText(addToCartButton))) IN
              IF isDisabled(addToCartButton) \/ includes(buttonText, soldOutText)
              THEN FALSE
              ELSE TRUE

checkStockFromHTML(r, h) ==
    IF r = "keyword" THEN checkStockFromHTML_keyword(h)
    ELSE checkStockFromHTML_guarded(h)

-----------------------------------------------------------------------------
(* Bounds of the model                                                      *)

MaxFrags  == 3   \* fragments a markup of the classifier harness is made of
MaxElems  == 2   \* elements of a document of the classifier harness
MaxCycles == 2   \* checkStock invocations in flight at once
MaxStarts == 2   \* checkStock invocations that pass the guard, per behaviour
MaxSeq    == 5   \* the same, in the sequential specification
MaxTests  == 1   \* /test commands per behaviour

-----------------------------------------------------------------------------
(* Inputs of the classifier harness                                         *)

Fragments == {
    <<"A","d","d"," ","t","o"," ","C","a","r","t">>,
    <<"S","O","L","D"," ","O","U","T">>,
    <<"U","n","a","v","a","i","l","a","b","l","e">>,
    <<"I","n"," ","S","t","o","c","k">>,
    <<"P","r","e","-","O","r","d","e","r">>,
    <<"s","o","l","d">>,
    <<" ","o","u","t">>,
    <<"a","d","d"," ","t","o">>,
    <<" ","c","a","r","t">>,
    <<"I","N"," ","S","T","O","C","U+212A">>,
    <<"<","p",">">> }

Markups ==
    {Concat(fs) : fs \in UNION {[1..n -> Fragments] : n \in 0..MaxFrags}}

ElementTexts == {
    <<"A","d","d"," ","t","o"," ","c","a","r","t">>,
    <<"A","d","d"," ","t","o"," ","C","a","r","t">>,
    <<"\r","\n","S","o","l","d"," ","O","u","t","U+00A0">>,
    <<"O","u","t"," ","o","f"," ","s","t","o","c","k">> }

Elements ==
    [tag : {"button"}, cls : BOOLEAN, name : {"add", ""}, disabled : BOOLEAN,
     text : ElementTexts]
    \cup
    [tag : {"div"}, cls : BOOLEAN, name : {""}, disabled : BOOLEAN,
     text : ElementTexts]
    \cup
    [tag : {"select"}, cls : BOOLEAN, name : {""}, disabled : BOOLEAN,
     text : {AddToCartText}]

Doms == UNION {[1..n -> Elements] : n \in 0..MaxElems}

ParsedInputs ==
    {[throws |-> FALSE, dom |-> d] : d \in Doms} \cup {[throws |-> TRUE, dom |-> <<>>]}

-----------------------------------------------------------------------------
(* State of the poller                                                      *)

Slots == 1..MaxCycles

IdleCycle == [pc |-> "idle", caller |-> "none", timer |-> FALSE, atStart |-> "none",
              seq |-> 0]

PollInit ==
    /\ rev \in {"keyword", "guarded"}
    /\ lastStockStatus = "unknown"            \* index.js:29, :307
    /\ isChecking = FALSE                     \* index.js:309
    /\ cyc = [s \in Slots |-> IdleCycle]
    /\ startupPending = TRUE
    /\ chk = [pc |-> "idle", reply |-> "none"]
    /\ tst = [pc |-> "idle", n |-> 0]
    /\ started = 0
    /\ alerts = 0
    /\ hist = <<>>
    /\ ev = [op |-> "init", slot |-> 0, caller |-> "none", length |-> 0]
    /\ owed = FALSE

\* Date.now() when the first handler can run; lastHealthCheck starts at 0
\* (index.js:30, :308), a time long before
BootTime == 60000

\* the process after its start sequence: timers scheduled, server listening,
\* bot.launch() and the start-up message called and settled
Running == [token |-> TRUE, chat |-> TRUE, key |-> TRUE,
            pc |-> 0, timers |-> TRUE, listening |-> TRUE,
            fetched |-> FALSE, telegram |-> TRUE, exited |-> FALSE,
            pending |-> "none", signals |-> {}]

SideInit ==
    /\ now = BootTime
    /\ lastHealthCheck = 0                    \* index.js:30, :308
    /\ reqs = <<>>
    /\ boot = Running

-----------------------------------------------------------------------------
(* Responses of the product page                                            *)

\* if (html.length > 5 * 1024 * 1024), index.js:95, :386
MaxHtmlLength == 5 * 1024 * 1024

\* html.length of a response body: at the limit and one above it
BodyLengths == {MaxHtmlLength, MaxHtmlLength + 1}

\* The part of a body the classifier's answer depends on; the rest of the
\* body, which makes up its length, holds none of the phrases or controls.
KeywordPages == {
    <<"A","d","d"," ","t","o"," ","C","a","r","t">>,
    <<"S","O","L","D"," ","O","U","T">>,
    <<"<","p",">">> }

GuardedPages == {
    [throws |-> FALSE, dom |-> <<>>],
    [throws |-> FALSE,
     dom |-> << [tag |-> "button", cls |-> FALSE, name |-> "add", disabled |-> FALSE,
                 text |-> <<"A","d","d"," ","t","o"," ","c","a","r","t">>] >>],
    [throws |-> FALSE,
     dom |-> << [tag |-> "button", cls |-> FALSE, name |-> "add", disabled |-> TRUE,
                 text |-> <<" ","S","o","l","d"," ","O","u","t"," ">>] >>],
    [throws |-> TRUE, dom |-> <<>>] }

Pages(r) == IF r = "keyword" THEN KeywordPages ELSE GuardedPages

Bodies(r) == [html : Pages(r), length : BodyLengths]

\* checkStockFromHTML on the pages of the poller, evaluated once per page
KeywordAnswers == [p \in KeywordPages |-> checkStockFromHTML_keyword(p)]
GuardedAnswers == [p \in GuardedPages |-> checkStockFromHTML_guarded(p)]
PageInStock(r, page) ==
    IF r = "keyword" THEN KeywordAnswers[page] ELSE GuardedAnswers[page]

\* whether cheerio.load threw on the page (the keyword revision does not parse)
ParseThrows(r, page) == r = "guarded" /\ page.throws

-----------------------------------------------------------------------------
(* checkStock, index.js:69-119 (keyword) and :355-412 (guarded)             *)

Event(op, slot, caller, length) ==
    [op |-> op, slot |-> slot, caller |-> caller, length |-> length]

\* the lowest slot that holds no invocation
FreeSlot == CHOOSE s \in Slots :
    cyc[s].pc = "idle" /\ \A t \in Slots : t < s => cyc[t].pc # "idle"

\* A variant without the re-entrancy test.
GuardSkips_never(r, flag) == FALSE

\* if (isChecking) return;  index.js:356-359.  The keyword revision has no test.
GuardSkips(r, flag) == r = "guarded" /\ flag

\* The entry segment of checkStock, up to its await of fetch (index.js:69-84,
\* :355-377): the guard, isChecking = true, the 15 s abort timer armed, the GET
\* issued.  limit bounds the invocations that pass the guard.
CheckStockEntry(caller, limit) ==
    IF GuardSkips(rev, isChecking)
    THEN /\ ev' = Event("skip", 0, caller, 0)
         /\ UNCHANGED <<isChecking, cyc, started>>
    ELSE /\ started < limit
         /\ \E s \in Slots : cyc[s].pc = "idle"
         /\ isChecking' = (rev = "guarded")
         /\ cyc' = [cyc EXCEPT ![FreeSlot] =
                       [pc |-> "headers", caller |-> caller, timer |-> TRUE,
                        atStart |-> lastStockStatus, seq |-> started + 1]]
         /\ started' = started + 1
         /\ ev' = Event("start", FreeSlot, caller, 0)

\* whether this call of checkStock returned at the guard
Skipped == GuardSkips(rev, isChecking)

\* A variant whose catch block stores a status.
StatusAfterCatch_soldOut(last) == "sold_out"

\* catch (error) { console.error(...) }, index.js:112-118, :403-408: the block
\* logs and assigns nothing, so the stored status stays what it was.
StatusAfterCatch(last) == last

\* A variant whose finally block is not reached after an abort by the timer.
Finish_flagKeptOnTimeout(s, op, length, status) ==
    /\ cyc' = [cyc EXCEPT ![s] = IdleCycle]
    /\ isChecking' = (rev = "guarded" /\ op = "timeout")
    /\ chk' = IF cyc[s].caller = "check"
              THEN [pc |-> "idle", reply |-> status]
              ELSE chk
    /\ ev' = Event(op, s, cyc[s].caller, length)

\* The end of a checkStock invocation: (guarded) finally isChecking = false; the
\* promise resolves; a /check handler awaiting it resumes and replies with the
\* status as it is then (index.js:204, :514).
Finish(s, op, length, status) ==
    /\ cyc' = [cyc EXCEPT ![s] = IdleCycle]
    /\ isChecking' = FALSE
    /\ chk' = IF cyc[s].caller = "check"
              THEN [pc |-> "idle", reply |-> status]
              ELSE chk
    /\ ev' = Event(op, s, cyc[s].caller, length)

\* A fetch, a non-2xx status, a body read or the size test threw: the catch
\* block, then Finish.
FinishByCatch(s, op, length) ==
    /\ lastStockStatus' = StatusAfterCatch(lastStockStatus)
    /\ Finish(s, op, length, StatusAfterCatch(lastStockStatus))
    /\ UNCHANGED <<rev, startupPending, tst, started, alerts, hist, classVars, sideVars, owed>>

\* fetch resolves with the response head: clearTimeout(timeoutId); a non-2xx
\* status throws; otherwise response.text() is awaited (index.js:86-92, :379-385)
HeadersArrive(s, ok) ==
    /\ cyc[s].pc = "headers"
    /\ IF ok
       THEN /\ cyc' = [cyc EXCEPT ![s].pc = "body", ![s].timer = FALSE]
            /\ ev' = Event("headersOk", s, cyc[s].caller, 0)
            /\ UNCHANGED <<rev, lastStockStatus, isChecking, startupPending, chk, tst,
                           started, alerts, hist, classVars, sideVars, owed>>
       ELSE FinishByCatch(s, "httpError", 0)

\* fetch rejects with a network error (the abort timer is left to fire on a
\* settled request, where abort() does nothing)
FetchRejects(s) ==
    /\ cyc[s].pc = "headers"
    /\ FinishByCatch(s, "networkError", 0)

\* setTimeout(() => controller.abort(), 15000) fires while it is armed: the
\* pending request rejects with AbortError (index.js:75, :368)
TimerFires(s) ==
    /\ cyc[s].timer
    /\ cyc[s].pc \in {"headers", "body"}
    /\ FinishByCatch(s, "timeout", 0)

\* response.text() rejects: the connection broke while the body was read
BodyRejects(s) ==
    /\ cyc[s].pc = "body"
    /\ FinishByCatch(s, "networkError", 0)

\* A variant without the size test.
TooLarge_never(length) == FALSE

\* if (html.length > 5 * 1024 * 1024) throw new Error('Response too large')
TooLarge(length) == length > MaxHtmlLength

\* A variant that notifies on every in-stock poll.
ShouldNotify_always(last) == TRUE

\* A variant that notifies on the first transition only.
ShouldNotify_firstOnly(last) == last = "unknown"

\* if (lastStockStatus !== 'available'), index.js:104, :395
ShouldNotify(last) == last # "available"

\* response.text() resolves with the body: the size test, the classifier, the
\* state transition, and on a transition into 'available' the call of
\* sendStockNotification up to its await of sendMessage (index.js:92-111,
\* :385-402 with :150-157, :437-447)
BodyArrives(s, body) ==
    /\ cyc[s].pc = "body"
    /\ IF TooLarge(body.length)
       THEN FinishByCatch(s, "tooLarge", body.length)
       ELSE LET found  == PageInStock(rev, body.html)
                notify == found /\ ShouldNotify(lastStockStatus)
                status == IF found THEN "available" ELSE "sold_out"
            IN  /\ hist' = Append(hist, [inStock |-> found, notified |-> notify,
                                         threw |-> ParseThrows(rev, body.html),
                                         before |-> lastStockStatus, at |-> now,
                                         seq |-> cyc[s].seq])
                /\ lastStockStatus' = IF found /\ ~notify THEN lastStockStatus ELSE status
                /\ IF notify
                   THEN /\ alerts' = alerts + 1
                        /\ cyc' = [cyc EXCEPT ![s].pc = "send"]
                        /\ ev' = Event("notify", s, cyc[s].caller, body.length)
                        /\ UNCHANGED <<isChecking, chk>>
                   ELSE /\ alerts' = alerts
                        /\ Finish(s, IF found THEN "stillAvailable" ELSE "soldOut",
                                  body.length, lastStockStatus')
                /\ owed' = IF notify THEN TRUE ELSE IF found THEN owed ELSE FALSE
                /\ UNCHANGED <<rev, startupPending, tst, started, classVars, sideVars>>

\* A variant that sends again when the send was rejected.
SendSettles_retry(s, ok) ==
    /\ cyc[s].pc = "send"
    /\ IF ok
       THEN /\ Finish(s, "sent", 0, lastStockStatus)
            /\ alerts' = alerts
       ELSE /\ alerts' = alerts + 1
            /\ ev' = Event("sendFailed", s, cyc[s].caller, 0)
            /\ UNCHANGED <<isChecking, cyc, chk>>
    /\ owed' = IF ok THEN FALSE ELSE owed
    /\ UNCHANGED <<rev, lastStockStatus, startupPending, tst, started, hist,
                   classVars, sideVars>>

\* bot.telegram.sendMessage settles; a rejection is caught inside
\* sendStockNotification (index.js:154-161, :443-451), which then returns
SendSettles(s, ok) ==
    /\ cyc[s].pc = "send"
    /\ Finish(s, IF ok THEN "sent" ELSE "sendFailed", 0, lastStockStatus)
    /\ owed' = IF ok THEN FALSE ELSE owed
    /\ UNCHANGED <<rev, lastStockStatus, startupPending, tst, started, alerts, hist,
                   classVars, sideVars>>

-----------------------------------------------------------------------------
(* Callers of checkStock                                                    *)

\* setInterval(checkStock, 60000) / setInterval(checkStock, 30000): index.js:236, :543.
\* The period is longer than the 15 s of the abort timer, so the timer that the
\* cycle of the previous tick armed is no longer armed when a tick fires.
IntervalTick(limit) ==
    /\ ~\E s \in Slots : cyc[s].caller = "interval" /\ cyc[s].timer
    /\ CheckStockEntry("interval", limit)
    /\ UNCHANGED <<rev, lastStockStatus, startupPending, chk, tst, alerts, hist,
                   classVars, sideVars, owed>>

\* setTimeout(checkStock, 5000): index.js:262, :562
StartupTimeout(limit) ==
    /\ startupPending
    /\ startupPending' = FALSE
    /\ CheckStockEntry("startup", limit)
    /\ UNCHANGED <<rev, lastStockStatus, chk, tst, alerts, hist, classVars, sideVars, owed>>

\* bot.command('check'): the first reply is sent and awaited (index.js:200-202, :511-512)
CheckCommand ==
    /\ chk.pc = "idle"
    /\ chk' = [pc |-> "reply1", reply |-> "none"]
    /\ ev' = Event("checkCmd", 0, "check", 0)
    /\ UNCHANGED <<rev, lastStockStatus, isChecking, cyc, startupPending, tst,
                   started, alerts, hist, classVars, sideVars, owed>>

\* the first reply resolved: await checkStock() (index.js:203, :513).  A call
\* that returns at the guard lets the handler go on to its second reply at once.
CheckCall(limit) ==
    /\ chk.pc = "reply1"
    /\ CheckStockEntry("check", limit)
    /\ chk' = IF Skipped
              THEN [pc |-> "idle", reply |-> lastStockStatus]
              ELSE [pc |-> "wait", reply |-> "none"]
    /\ UNCHANGED <<rev, lastStockStatus, startupPending, tst, alerts, hist, classVars, sideVars, owed>>

\* the first reply rejected: the keyword revision's catch replies with an error
\* text (index.js:205-208), the guarded revision leaves it to bot.catch (:537)
CheckReplyFails ==
    /\ chk.pc = "reply1"
    /\ chk' = [pc |-> "idle", reply |-> IF rev = "keyword" THEN "error" ELSE "none"]
    /\ ev' = Event("checkReplyFailed", 0, "check", 0)
    /\ UNCHANGED <<rev, lastStockStatus, isChecking, cyc, startupPending, tst,
                   started, alerts, hist, classVars, sideVars, owed>>

\* bot.command('test'): the first reply is sent and awaited (index.js:211-213);
\* in the guarded revision adminOnly lets only the administrator through (:494-498, :519-520)
TestCommand(admin) ==
    /\ tst.pc = "idle"
    /\ tst.n < MaxTests
    /\ IF rev = "guarded" /\ ~admin
       THEN /\ tst' = [tst EXCEPT !.n = @ + 1]
            /\ ev' = Event("testDenied", 0, "test", 0)
       ELSE /\ tst' = [pc |-> "reply1", n |-> tst.n + 1]
            /\ ev' = Event("testCmd", 0, "test", 0)
    /\ UNCHANGED <<rev, lastStockStatus, isChecking, cyc, startupPending, chk,
                   started, alerts, hist, classVars, sideVars, owed>>

\* what /test stores before it calls sendStockNotification: the keyword revision
\* assigns 'sold_out' and then 'available' (index.js:216-220), the guarded
\* revision assigns nothing (:519-523)
StatusAfterTest(r, last) == IF r = "keyword" THEN "available" ELSE last

\* the first reply resolved: sendStockNotification is called and runs up to its
\* await of sendMessage (index.js:216-221, :521)
TestSend ==
    /\ tst.pc = "reply1"
    /\ lastStockStatus' = StatusAfterTest(rev, lastStockStatus)
    /\ alerts' = alerts + 1
    /\ tst' = [tst EXCEPT !.pc = "send"]
    /\ ev' = Event("testSend", 0, "test", 0)
    /\ UNCHANGED <<rev, isChecking, cyc, startupPending, chk, started, hist, classVars, sideVars, owed>>

\* the first reply rejected: no notification is sent
TestReplyFails ==
    /\ tst.pc = "reply1"
    /\ tst' = [tst EXCEPT !.pc = "idle"]
    /\ ev' = Event("testReplyFailed", 0, "test", 0)
    /\ UNCHANGED <<rev, lastStockStatus, isChecking, cyc, startupPending, chk,
                   started, alerts, hist, classVars, sideVars, owed>>

\* sendMessage settles; the handler sends its last reply (index.js:223, :522)
TestSendSettles(ok) ==
    /\ tst.pc = "send"
    /\ tst' = [tst EXCEPT !.pc = "idle"]
    /\ ev' = Event(IF ok THEN "testSent" ELSE "testSendFailed", 0, "test", 0)
    /\ owed' = IF ok THEN FALSE ELSE owed
    /\ UNCHANGED <<rev, lastStockStatus, isChecking, cyc, startupPending, chk,
                   started, alerts, hist, classVars, sideVars>>

-----------------------------------------------------------------------------
(* The program: every entry point of the poller                             *)

Init ==
    /\ PollInit
    /\ SideInit
    /\ html = <<>>
    /\ inStock = [called |-> FALSE, value |-> FALSE]

Next ==
    \/ IntervalTick(MaxStarts)
    \/ StartupTimeout(MaxStarts)
    \/ CheckCommand
    \/ CheckCall(MaxStarts)
    \/ CheckReplyFails
    \/ \E admin \in BOOLEAN : TestCommand(admin)
    \/ TestSend
    \/ TestReplyFails
    \/ \E ok \in BOOLEAN : TestSendSettles(ok)
    \/ \E s \in Slots :
          \/ \E ok \in BOOLEAN : HeadersArrive(s, ok)
          \/ FetchRejects(s)
          \/ TimerFires(s)
          \/ BodyRejects(s)
          \/ \E body \in Bodies(rev) : BodyArrives(s, body)
          \/ \E ok \in BOOLEAN : SendSettles(s, ok)

Spec == Init /\ [][Next]_vars

-----------------------------------------------------------------------------
(* Poll cycles run one after another, each reaching the classifier          *)

AllIdle == \A s \in Slots : cyc[s].pc = "idle"

SeqNext ==
    \/ AllIdle /\ IntervalTick(MaxSeq)
    \/ \E s \in Slots :
          \/ HeadersArrive(s, TRUE)
          \/ \E body \in Bodies(rev) : ~TooLarge(body.length) /\ BodyArrives(s, body)
          \/ \E ok \in BOOLEAN : SendSettles(s, ok)

SpecSeq == Init /\ [][SeqNext]_vars

-----------------------------------------------------------------------------
(* Classifier harness: checkStockFromHTML applied to one argument           *)

ClassifyInit ==
    /\ PollInit
    /\ SideInit
    /\ \/ rev = "keyword" /\ html \in Markups
       \/ rev = "guarded" /\ html \in ParsedInputs
    /\ inStock = [called |-> FALSE, value |-> FALSE]

Classify ==
    /\ ~inStock.called
    /\ inStock' = [called |-> TRUE, value |-> checkStockFromHTML(rev, html)]
    /\ UNCHANGED <<html, pollVars, sideVars>>

\* the same argument again: the function keeps no state between calls
Reclassify ==
    /\ inStock.called
    /\ inStock' = [called |-> TRUE, value |-> checkStockFromHTML(rev, html)]
    /\ UNCHANGED <<html, pollVars, sideVars>>

ClassifyNext == Classify \/ Reclassify

SpecClassify == ClassifyInit /\ [][ClassifyNext]_vars

-----------------------------------------------------------------------------
(* C6 *)

\* w occurs in s, letter case ignored
IncludesIgnoringCase(s, w) ==
    \E i \in 0..(Len(s) - Len(w)) :
        \A j \in 1..Len(w) : ToLowerChar(s[i + j]) = w[j]

HasOutOfStockPhrase(s) ==
    \E k \in 1..Len(outOfStockKeywords) : IncludesIgnoringCase(s, outOfStockKeywords[k])

HasInStockPhrase(s) ==
    \E k \in 1..Len(inStockKeywords) : IncludesIgnoringCase(s, inStockKeywords[k])

\* C6: the keyword classifier answers out-of-stock for a markup that has any
\* out-of-stock phrase (whatever else it has), in-stock for a markup that has an
\* in-stock phrase and no out-of-stock phrase, and out-of-stock for a markup
\* that has neither, letter case ignored.
C6_KeywordClassifier ==
    (rev = "keyword" /\ inStock.called) =>
        inStock.value = (IF HasOutOfStockPhrase(html) THEN FALSE
                   ELSE IF HasInStockPhrase(html) THEN TRUE
                   ELSE FALSE)

\* a classified markup that has phrases of both lists
C6_Witness ==
    /\ rev = "keyword"
    /\ inStock.called
    /\ inStock.value = FALSE
    /\ HasOutOfStockPhrase(html)
    /\ HasInStockPhrase(html)
    /\ includes(html, <<"A","d","d"," ","t","o"," ","C","a","r","t">>)

-----------------------------------------------------------------------------
(* C1 *)

\* the stored status after the first i classified cycles of a run that began
\* at 'unknown'
StatusAfter(h, i) ==
    IF i = 0 THEN "unknown"
    ELSE IF h[i].inStock THEN "available" ELSE "sold_out"

\* C1: over cycles run one after another from 'unknown', sendStockNotification
\* is called in exactly the cycles that classify in-stock while the stored
\* status is not 'available', and the alerts sent are as many as those cycles.
C1_NotifyExactlyOnTransition ==
    /\ \A i \in 1..Len(hist) :
          hist[i].notified <=>
              (hist[i].inStock /\ StatusAfter(hist, i - 1) # "available")
    /\ alerts = Cardinality({i \in 1..Len(hist) : hist[i].notified})

\* [SoldOut, Available, Available, SoldOut, Available]: alerts in cycles 2 and 5
C1_Witness ==
    /\ Len(hist) = 5
    /\ [i \in 1..5 |-> hist[i].inStock]  = <<FALSE, TRUE, TRUE, FALSE, TRUE>>
    /\ [i \in 1..5 |-> hist[i].notified] = <<FALSE, TRUE, FALSE, FALSE, TRUE>>
    /\ alerts = 2

-----------------------------------------------------------------------------
(* C2 *)

\* a step of a poll cycle that changes the stored status into 'available'
PollTransition ==
    /\ ev'.slot # 0
    /\ lastStockStatus # "available"
    /\ lastStockStatus' = "available"

\* C2 as stated: an alert is sent only inside a poll cycle that changes the
\* stored status from a non-'available' value to 'available'.
C2_AsClaimed ==
    [][alerts' # alerts => PollTransition]_vars

\* C2, amended: an alert is sent in exactly two kinds of step: a poll cycle's
\* change of the stored status into 'available' (one alert per change), and the
\* /test command's call of sendStockNotification (one alert per call).
C2_AlertOnTransitionOrTest ==
    [][/\ alerts' \in {alerts, alerts + 1}
       /\ (alerts' = alerts + 1) <=> (PollTransition \/ ev'.op = "testSend")
       /\ (ev'.op = "testSend" /\ rev = "guarded") => lastStockStatus' = lastStockStatus
      ]_vars

\* a poll cycle's alert in a run that also had a /test alert
C2_Witness ==
    /\ ev.op = "notify"
    /\ tst.n = 1
    /\ alerts = 2

-----------------------------------------------------------------------------
(* C3 *)

Active == {s \in Slots : cyc[s].pc # "idle"}

\* C3: in the guarded revision at most one checkStock invocation is in flight;
\* a call made while isChecking is true returns at the guard: it issues no
\* fetch, changes neither the stored status nor any invocation in flight,
\* sends nothing, and leaves nothing behind that would start a cycle later.
C3_OneCycleSkipDropped ==
    [][rev = "guarded" =>
          /\ Cardinality(Active') <= 1
          /\ ev'.op = "start" => ~isChecking
          /\ ev'.op = "skip" =>
                /\ isChecking
                /\ UNCHANGED <<lastStockStatus, isChecking, cyc, started, alerts, hist>>
      ]_vars

\* a /check dropped while the cycle of an interval tick awaits its fetch
C3_Witness ==
    /\ rev = "guarded"
    /\ ev.op = "skip"
    /\ ev.caller = "check"
    /\ chk.pc = "idle"
    /\ \E s \in Slots : cyc[s].pc = "headers" /\ cyc[s].caller = "interval"

-----------------------------------------------------------------------------
(* C4 *)

\* C4 as stated: in the keyword revision at most one GET of the product page
\* is in flight (awaiting its response head or its body) at any time.
C4_AsClaimed ==
    rev = "keyword" =>
        Cardinality({s \in Slots : cyc[s].pc \in {"headers", "body"}}) <= 1

-----------------------------------------------------------------------------
(* C5 *)

FetchFailures == {"timeout", "httpError", "tooLarge", "networkError"}

\* C5: a cycle whose fetch step fails writes nothing: neither its entry, nor the
\* arrival of the response head, nor its failing end changes the stored status;
\* the failing end sends no alert, does not reach the classifier, resolves
\* checkStock (a /check that awaited it replies with the stored status), and
\* leaves the slot free and isChecking false for the next tick.  In the guarded
\* revision the status at that end is the one the cycle started with.
C5_FetchFailureKeepsState ==
    [][/\ ev'.op \in {"start", "headersOk"} => lastStockStatus' = lastStockStatus
       /\ ev'.op \in FetchFailures =>
             /\ lastStockStatus' = lastStockStatus
             /\ alerts' = alerts
             /\ hist' = hist
             /\ cyc'[ev'.slot] = IdleCycle
             /\ ~isChecking'
             /\ ev'.caller = "check" => chk' = [pc |-> "idle", reply |-> lastStockStatus]
             /\ rev = "guarded" => lastStockStatus' = cyc[ev'.slot].atStart
      ]_vars

\* a timeout after the product had been seen in stock
C5_Witness ==
    /\ ev.op = "timeout"
    /\ lastStockStatus = "available"
    /\ hist # <<>>

-----------------------------------------------------------------------------
(* C7 *)

\* C7 as stated: no matching control gives out-of-stock; otherwise the first
\* matching control decides alone: out-of-stock if it is disabled or its text
\* has any out-of-stock phrase, in-stock otherwise.
C7_AsClaimed ==
    (rev = "guarded" /\ inStock.called /\ ~html.throws) =>
        LET sel == Select(html.dom) IN
        inStock.value =
            (IF Len(sel) = 0 THEN FALSE
             ELSE ~(sel[1].disabled \/ HasOutOfStockPhrase(sel[1].text)))

-----------------------------------------------------------------------------
(* C8 *)

\* C8: in the guarded revision a cycle whose parse throws is classified
\* out-of-stock: the cycle stores 'sold_out', sends no alert and ends as an
\* out-of-stock cycle does, with checkStock resolved.
C8_ParseFailureIsSoldOut ==
    [][(Len(hist') = Len(hist) + 1 /\ hist'[Len(hist')].threw) =>
          /\ rev = "guarded"
          /\ ~hist'[Len(hist')].inStock
          /\ lastStockStatus' = "sold_out"
          /\ alerts' = alerts
          /\ ev'.op = "soldOut"
          /\ cyc'[ev'.slot] = IdleCycle
          /\ ~isChecking'
      ]_vars

\* a parse failure that takes the stored status from 'available' to 'sold_out'
C8_Witness ==
    /\ ev.op = "soldOut"
    /\ hist # <<>>
    /\ hist[Len(hist)].threw
    /\ hist[Len(hist)].before = "available"
    /\ lastStockStatus = "sold_out"

-----------------------------------------------------------------------------
(* C9 *)

\* C9: a body longer than the limit ends its cycle with 'Response too large':
\* the classifier is not called on it, the stored status stays and no alert is
\* sent; a body of exactly the limit is classified.
C9_TooLargeNeverClassified ==
    [][/\ ev'.length > MaxHtmlLength =>
             /\ ev'.op = "tooLarge"
             /\ hist' = hist
             /\ lastStockStatus' = lastStockStatus
             /\ alerts' = alerts
       /\ ev'.length = MaxHtmlLength =>
             /\ ev'.op \in {"notify", "soldOut", "stillAvailable"}
             /\ Len(hist') = Len(hist) + 1
      ]_vars

\* an oversized body after the product had been seen in stock
C9_Witness ==
    /\ ev.op = "tooLarge"
    /\ ev.length = MaxHtmlLength + 1
    /\ lastStockStatus = "available"

-----------------------------------------------------------------------------
(* C10 *)

\* C10 as stated: the abort timer bounds the whole fetch: it is armed for as
\* long as the cycle waits for the response head or for the body.
C10_AsClaimed ==
    \A s \in Slots : cyc[s].pc \in {"headers", "body"} => cyc[s].timer

-----------------------------------------------------------------------------
(* C11 *)

\* C11: a rejected send of the stock alert ends inside sendStockNotification:
\* the step that takes the rejection ends the cycle as a resolved send does
\* (the invocation is gone, in the guarded revision isChecking is false and
\* nothing is in flight, a /check that awaited it replies with the status), it
\* sends nothing more and stores nothing; a cycle sends only from its
\* classifying step, so at most once.
C11_SendFailureContained ==
    [][/\ ev'.op = "sendFailed" =>
             /\ cyc[ev'.slot].pc = "send"
             /\ cyc'[ev'.slot] = IdleCycle
             /\ rev = "guarded" => (~isChecking' /\ Active' = {})
             /\ alerts' = alerts
             /\ lastStockStatus' = lastStockStatus
             /\ hist' = hist
             /\ ev'.caller = "check" =>
                    chk' = [pc |-> "idle", reply |-> lastStockStatus]
       /\ (alerts' # alerts /\ ev'.slot # 0) =>
             /\ cyc[ev'.slot].pc = "body"
             /\ alerts' = alerts + 1
      ]_vars

\* the send of an interval tick's cycle was rejected, and a later tick can start
C11_Witness ==
    /\ ev.op = "sendFailed"
    /\ ev.caller = "interval"
    /\ alerts = 1
    /\ started < MaxStarts
    /\ AllIdle

-----------------------------------------------------------------------------
(* C12 *)

\* C12 as stated: the alert of a restock is not lost by a rejected send.  A
\* cycle that classifies in stock and sends nothing is the only kind of cycle
\* there is while the page stays in stock and the stored status is
\* 'available'; so when such a cycle ends while the alert of the restock is
\* undelivered, a send of it is still in flight.
C12_AsClaimed ==
    [][(ev'.op = "stillAvailable" /\ owed') =>
          \/ \E s \in Slots : cyc'[s].pc = "send"
          \/ tst'.pc = "send"
      ]_vars

-----------------------------------------------------------------------------
(* C15 *)

\* the values of lastStockStatus
Statuses == {"unknown", "available", "sold_out"}

\* C15 as stated: the step in which /check replies with a status is the end of
\* a poll cycle that the command's own call of checkStock started.
C15_AsClaimed ==
    [][(chk.pc # "idle" /\ chk'.pc = "idle" /\ chk'.reply \in Statuses) =>
          /\ ev'.slot # 0
          /\ cyc[ev'.slot].caller = "check"
          /\ cyc'[ev'.slot] = IdleCycle
      ]_vars

-----------------------------------------------------------------------------
(* C17 *)

\* C17 as stated: lastStockStatus starts as 'unknown', only a step of a
\* checkStock invocation changes it, and no step sets it back to 'unknown'.
C17_AsClaimed ==
    [][lastStockStatus' # lastStockStatus =>
          /\ ev'.slot # 0
          /\ lastStockStatus' # "unknown"
      ]_vars

-----------------------------------------------------------------------------
(* C19 *)

\* C19: the step of a cycle that classifies stores the classification: an
\* out-of-stock answer stores 'sold_out' whatever was stored and sends nothing;
\* an in-stock answer stores 'available', and when 'available' was stored
\* already it changes nothing of the stored state and sends nothing.  In the
\* guarded revision the status is still the classification when the cycle ends.
C19_StatusFollowsClassification ==
    [][/\ Len(hist') = Len(hist) + 1 =>
             LET h == hist'[Len(hist')]
             IN  /\ lastStockStatus' = IF h.inStock THEN "available" ELSE "sold_out"
                 /\ ~h.inStock => (alerts' = alerts /\ ev'.op = "soldOut")
                 /\ (h.inStock /\ lastStockStatus = "available") =>
                        /\ UNCHANGED <<lastStockStatus, alerts, owed>>
                        /\ ev'.op = "stillAvailable"
       /\ (rev = "guarded" /\ ev'.op \in {"sent", "sendFailed"}) =>
             lastStockStatus' = "available"
      ]_vars

\* an out-of-stock answer stored over 'available' by a page that parsed
C19_Witness ==
    /\ ev.op = "soldOut"
    /\ hist # <<>>
    /\ ~hist[Len(hist)].threw
    /\ hist[Len(hist)].before = "available"
    /\ lastStockStatus = "sold_out"
    /\ alerts = 1

-----------------------------------------------------------------------------
(* C20 *)

\* C20 as stated: a cycle never holds more of a body than the limit.  The
\* length of an event is html.length of the string that response.text()
\* resolved with, the whole body held in memory.
C20_AsClaimed ==
    ev.length <= MaxHtmlLength

-----------------------------------------------------------------------------
(* The health route and /status: index.js:42-66, :188-198 (keyword) and     *)
(* :475-490, :500-509 (guarded)                                             *)

MaxRequests == 3      \* requests of the health route, per behaviour
MaxElapsed == 60000   \* time that passes over these requests, in ms
MaxPolls == 1         \* checkStock invocations that pass the guard, next to them
MaxReads == 2         \* requests and /status commands among all the handlers
MaxReadElapsed == 30000   \* time that passes over these, in ms

\* if (now - lastHealthCheck < 30000), index.js:47, :477
HealthCooldown == 30000

\* the time that passes between two handlers
ClockSteps == {HealthCooldown - 1, HealthCooldown}

\* req.query.key: the configured key, another one, or none
Keys == {"good", "bad", "none"}

\* A variant whose window includes its end.
RateLimited_inclusive(t, last) == t - last <= HealthCooldown

\* now - lastHealthCheck < 30000
RateLimited(t, last) == t - last < HealthCooldown

\* healthKey !== HEALTH_CHECK_KEY, index.js:54, :482
Unauthorized(key) == key # "good"

\* stockStatus of the body: the keyword revision shows 'unknown' as
\* 'monitoring' (index.js:64), the guarded revision shows it as it is (:488)
ReportedStatus(r, status) ==
    IF r = "keyword" /\ status = "unknown" THEN "monitoring" ELSE status

\* lastCheck of the body: the keyword revision puts new Date().toISOString(),
\* the time of the request (index.js:63); the guarded body has no such field
\* (:485-489), written -1
ReportedLastCheck(r, t) == IF r = "keyword" THEN t ELSE -1

\* A variant whose 429 starts the window anew.
HealthRoute_restartsOn429(r, t, last, key, status) ==
    IF RateLimited(t, last)
    THEN [code |-> 429, lastHealthCheck |-> t,
          lastCheck |-> -1, stockStatus |-> "none"]
    ELSE IF Unauthorized(key)
    THEN [code |-> 401, lastHealthCheck |-> t,
          lastCheck |-> -1, stockStatus |-> "none"]
    ELSE [code |-> 200, lastHealthCheck |-> t,
          lastCheck |-> ReportedLastCheck(r, t),
          stockStatus |-> ReportedStatus(r, status)]

\* The handler of the health route at time t: the answer and the value of
\* lastHealthCheck it leaves.  The assignment comes before the key test.
HealthRoute(r, t, last, key, status) ==
    IF RateLimited(t, last)
    THEN [code |-> 429, lastHealthCheck |-> last,
          lastCheck |-> -1, stockStatus |-> "none"]
    ELSE IF Unauthorized(key)
    THEN [code |-> 401, lastHealthCheck |-> t,
          lastCheck |-> -1, stockStatus |-> "none"]
    ELSE [code |-> 200, lastHealthCheck |-> t,
          lastCheck |-> ReportedLastCheck(r, t),
          stockStatus |-> ReportedStatus(r, status)]

\* the time of the last classification, -1 before the first
LastClassified == IF hist = <<>> THEN -1 ELSE hist[Len(hist)].at

\* time passes
ClockAdvance(d, limit) ==
    /\ ev.op # "clock"
    /\ now + d <= BootTime + limit
    /\ now' = now + d
    /\ ev' = Event("clock", 0, "none", 0)
    /\ UNCHANGED <<rev, lastStockStatus, isChecking, cyc, startupPending, chk, tst,
                   started, alerts, hist, owed, lastHealthCheck, reqs, boot, classVars>>

\* GET / (keyword) or GET /healthz (guarded) with ?key=key
HealthRequest(key, limit) ==
    /\ Len(reqs) < limit
    /\ LET a == HealthRoute(rev, now, lastHealthCheck, key, lastStockStatus)
       IN  /\ lastHealthCheck' = a.lastHealthCheck
           /\ reqs' = Append(reqs, [kind |-> "health", t |-> now, key |-> key,
                                    code |-> a.code, lastCheck |-> a.lastCheck,
                                    stockStatus |-> a.stockStatus,
                                    classified |-> LastClassified])
    /\ ev' = Event("health", 0, "http", 0)
    /\ UNCHANGED <<rev, lastStockStatus, isChecking, cyc, startupPending, chk, tst,
                   started, alerts, hist, owed, now, boot, classVars>>

\* Stock Status of the /status message: the guarded revision shows
\* lastStockStatus.replace("_", " ") (index.js:502-505), the keyword revision
\* the value as it is (:191)
StatusShown(r, status) ==
    IF r = "guarded" /\ status = "sold_out" THEN "sold out" ELSE status

\* bot.command('status'): the message shows lastStockStatus and, as Last Check,
\* new Date() of the moment the message is composed (index.js:191, :502-507)
StatusCommand(limit) ==
    /\ Len(reqs) < limit
    /\ reqs' = Append(reqs, [kind |-> "status", t |-> now, key |-> "none",
                             code |-> 200, lastCheck |-> now,
                             stockStatus |-> StatusShown(rev, lastStockStatus),
                             classified |-> LastClassified])
    /\ ev' = Event("status", 0, "status", 0)
    /\ UNCHANGED <<rev, lastStockStatus, isChecking, cyc, startupPending, chk, tst,
                   started, alerts, hist, owed, now, lastHealthCheck, boot, classVars>>

\* The running process: time passes, requests and commands arrive, and the
\* timers start poll cycles, at any moment of a cycle in flight
HealthNext ==
    \/ \E d \in ClockSteps : ClockAdvance(d, MaxReadElapsed)
    \/ \E key \in Keys : HealthRequest(key, MaxReads)
    \/ StatusCommand(MaxReads)
    \/ IntervalTick(MaxPolls)
    \/ StartupTimeout(MaxPolls)
    \/ CheckCommand
    \/ CheckCall(MaxPolls)
    \/ CheckReplyFails
    \/ \E admin \in BOOLEAN : TestCommand(admin)
    \/ TestSend
    \/ TestReplyFails
    \/ \E ok \in BOOLEAN : TestSendSettles(ok)
    \/ \E s \in Slots :
          \/ \E ok \in BOOLEAN : HeadersArrive(s, ok)
          \/ FetchRejects(s)
          \/ TimerFires(s)
          \/ BodyRejects(s)
          \/ \E body \in Bodies(rev) : BodyArrives(s, body)
          \/ \E ok \in BOOLEAN : SendSettles(s, ok)

SpecHealth == Init /\ [][HealthNext]_vars

\* The health route over longer sequences of requests: time passes, requests
\* arrive, and the interval timer runs a poll cycle next to them, so that the
\* status of the body changes between two requests
RouteNext ==
    \/ \E d \in ClockSteps : ClockAdvance(d, MaxElapsed)
    \/ \E key \in Keys : HealthRequest(key, MaxRequests)
    \/ IntervalTick(MaxPolls)
    \/ \E s \in Slots :
          \/ \E ok \in BOOLEAN : HeadersArrive(s, ok)
          \/ FetchRejects(s)
          \/ TimerFires(s)
          \/ BodyRejects(s)
          \/ \E body \in Bodies(rev) : BodyArrives(s, body)
          \/ \E ok \in BOOLEAN : SendSettles(s, ok)

SpecRoute == Init /\ [][RouteNext]_vars

-----------------------------------------------------------------------------
(* C14 *)

HealthLog == SelectSeq(reqs, LAMBDA q : q.kind = "health")

\* the requests before the i-th that were not answered 429
Counted(log, i) == {j \in 1..(i - 1) : log[j].code # 429}

\* the time of the last of them
LastCounted(log, i) ==
    log[CHOOSE j \in Counted(log, i) : \A k \in Counted(log, i) : k <= j].t

\* C14: a health request that arrives less than 30 s after the last request
\* not answered 429 is answered 429; any other request is answered 401 when
\* its key is absent or wrong, and 200 with the status body when its key is
\* right; no other answer carries a status.
C14_HealthRateLimitThenKey ==
    \A i \in 1..Len(HealthLog) :
        LET q == HealthLog[i]
            limited == /\ Counted(HealthLog, i) # {}
                       /\ q.t - LastCounted(HealthLog, i) < HealthCooldown
        IN  /\ q.code = IF limited THEN 429
                        ELSE IF q.key # "good" THEN 401 ELSE 200
            /\ (q.stockStatus # "none") <=> (q.code = 200)

\* a request with a wrong key opens the window, the right key is refused
\* 29.999 s later, and the refusal does not open a window: the right key is
\* answered 29.999 s after the refusal, 59.998 s after the first request
C14_Witness ==
    /\ Len(HealthLog) = 3
    /\ HealthLog[1].code = 401
    /\ HealthLog[2].code = 429
    /\ HealthLog[2].key = "good"
    /\ HealthLog[2].t = HealthLog[1].t + HealthCooldown - 1
    /\ HealthLog[3].code = 200
    /\ HealthLog[3].key = "good"
    /\ HealthLog[3].t = HealthLog[2].t + HealthCooldown - 1
    /\ lastHealthCheck = HealthLog[3].t

-----------------------------------------------------------------------------
(* C16 *)

\* C16 as stated: a last-check time that the health route or /status reports
\* after a cycle has classified is the time of the last classification.
C16_AsClaimed ==
    \A i \in 1..Len(reqs) :
        (reqs[i].lastCheck # -1 /\ reqs[i].classified # -1) =>
            reqs[i].lastCheck = reqs[i].classified

-----------------------------------------------------------------------------
(* The start of the process: index.js:1-30 with :234-267 (keyword),         *)
(* :273-309 with :541-569 (guarded), unnamed/part_000:1-45 (webhook) and    *)
(* index.json:1-36 (polling)                                                *)

\* the four programs of the repository
Programs == {"keyword", "guarded", "webhook", "polling"}

\* The statements of a program with an effect outside it, in the order in
\* which its start runs them.
Statements(r) ==
    CASE r = "keyword" ->
            <<"validateBot", "validateKey", "newTelegraf", "setInterval", "listen",
              "launch", "startupMessage", "setTimeout">>
      [] r = "guarded" ->
            <<"validateBot", "validateKey", "newTelegraf", "setInterval", "listen",
              "launch", "startupMessage", "setTimeout">>
      [] r = "webhook" ->
            <<"newTelegraf", "setWebhook", "setInterval", "listen">>
      [] r = "polling" ->
            <<"newTelegraf", "setInterval", "launch">>

\* the statement the start is at: "await" while it waits for the promise of
\* bot.launch() or of the start-up message (index.js:246, :253, :550, :557;
\* the two earliest revisions await neither call), "done" after the last
Statement ==
    IF boot.exited THEN "exited"
    ELSE IF rev \in {"keyword", "guarded"} /\ boot.pending \in {"launch", "message"}
         THEN "await"
    ELSE IF boot.pc > Len(Statements(rev)) THEN "done"
    ELSE Statements(rev)[boot.pc]

\* the start has returned to the event loop, where timers fire and promises
\* settle: it awaits, it has run its last statement, or (keyword revision) the
\* module has been loaded and the callback of app.listen has not run yet
\* (index.js:242)
AtEventLoop ==
    \/ Statement \in {"await", "done"}
    \/ rev = "keyword" /\ Statement = "launch"

\* the index of a statement of a program
IndexOf(r, stmt) == CHOOSE i \in 1..Len(Statements(r)) : Statements(r)[i] = stmt

StartupInit ==
    /\ rev \in Programs
    /\ lastStockStatus = "unknown"
    /\ isChecking = FALSE
    /\ cyc = [s \in Slots |-> IdleCycle]
    /\ startupPending = FALSE
    /\ chk = [pc |-> "idle", reply |-> "none"]
    /\ tst = [pc |-> "idle", n |-> 0]
    /\ started = 0
    /\ alerts = 0
    /\ hist = <<>>
    /\ ev = [op |-> "init", slot |-> 0, caller |-> "none", length |-> 0]
    /\ owed = FALSE
    /\ now = BootTime
    /\ lastHealthCheck = 0
    /\ reqs = <<>>
    /\ html = <<>>
    /\ inStock = [called |-> FALSE, value |-> FALSE]
    /\ boot \in [token : BOOLEAN, chat : BOOLEAN, key : BOOLEAN, pc : {1},
                  timers : {FALSE}, listening : {FALSE}, fetched : {FALSE},
                  telegram : {FALSE}, exited : {FALSE}, pending : {"none"},
                  signals : {{}}]

\* what the start of the process leaves alone
startupFrame == <<rev, lastStockStatus, isChecking, cyc, startupPending, chk, tst,
                  started, alerts, hist, owed, now, lastHealthCheck, reqs, classVars>>

Advance == [boot EXCEPT !.pc = @ + 1]
Exit == [boot EXCEPT !.exited = TRUE]

\* if (!BOT_TOKEN || !CHAT_ID) process.exit(1), index.js:15-18, :292-297
ValidateBot ==
    /\ Statement = "validateBot"
    /\ boot' = IF ~boot.token \/ ~boot.chat THEN Exit ELSE Advance
    /\ ev' = Event("validateBot", 0, "start", 0)
    /\ UNCHANGED startupFrame

\* if (!HEALTH_CHECK_KEY) process.exit(1), index.js:20-23, :298-301
ValidateKey ==
    /\ Statement = "validateKey"
    /\ boot' = IF ~boot.key THEN Exit ELSE Advance
    /\ ev' = Event("validateKey", 0, "start", 0)
    /\ UNCHANGED startupFrame

\* new Telegraf(token), index.js:26, :304, unnamed/part_000:8, index.json:5.
\* With a token the constructor returns; what the library does with undefined is not
\* in the repository: it returns, or it throws and the process dies.
NewTelegraf(throws) ==
    /\ Statement = "newTelegraf"
    /\ throws => ~boot.token
    /\ boot' = IF throws THEN Exit ELSE Advance
    /\ ev' = Event("newTelegraf", 0, "start", 0)
    /\ UNCHANGED startupFrame

\* bot.telegram.setWebhook(...), unnamed/part_000:37: a call of the Telegram
\* API whose promise is neither awaited nor caught; the module goes on loading
SetWebhook ==
    /\ Statement = "setWebhook"
    /\ boot' = [Advance EXCEPT !.telegram = TRUE, !.pending = "webhook"]
    /\ ev' = Event("setWebhook", 0, "start", 0)
    /\ UNCHANGED startupFrame

\* the promise of setWebhook settles, after the module has been loaded: it
\* resolves, or it rejects with nothing to handle the rejection, and the
\* runtime ends the process (Node 15 and later) or warns and goes on
WebhookSettles(outcome) ==
    /\ Statement = "done"
    /\ boot.pending = "webhook"
    /\ boot' = IF outcome = "fatal" THEN [Exit EXCEPT !.pending = "none"]
               ELSE [boot EXCEPT !.pending = "none"]
    /\ ev' = Event("webhookSettles", 0, "start", 0)
    /\ UNCHANGED startupFrame

\* setInterval(checkStock, ...), index.js:236-239, :543-544, unnamed/part_000:41,
\* index.json:34-35
SetInterval ==
    /\ Statement = "setInterval"
    /\ boot' = [Advance EXCEPT !.timers = TRUE]
    /\ ev' = Event("setInterval", 0, "start", 0)
    /\ UNCHANGED startupFrame

\* app.listen(PORT, ...), index.js:242, :546, unnamed/part_000:43
Listen ==
    /\ Statement = "listen"
    /\ boot' = [Advance EXCEPT !.listening = TRUE]
    /\ ev' = Event("listen", 0, "start", 0)
    /\ UNCHANGED startupFrame

\* bot.launch() is called, index.js:246, :550, index.json:36: it calls the
\* Telegram API and returns a promise, which the index.js revisions await
Launch ==
    /\ Statement = "launch"
    /\ boot' = [Advance EXCEPT !.telegram = TRUE, !.pending = "launch"]
    /\ ev' = Event("launch", 0, "start", 0)
    /\ UNCHANGED startupFrame

\* the promise of bot.launch() settles; with a library whose launch() resolves
\* only when polling stops this step is never taken.  A rejection is caught
\* and logged by the keyword revision, which goes on to its setTimeout calls
\* (index.js:245-262); it ends the guarded revision through start().catch
\* (:550, :566-569); in index.json:36 nothing handles it, and the runtime ends
\* the process or goes on.
LaunchSettles(outcome) ==
    /\ AtEventLoop
    /\ boot.pending = "launch"
    /\ outcome = "survived" => rev \in {"keyword", "polling"}
    /\ outcome = "fatal" => rev \in {"guarded", "polling"}
    /\ boot' = CASE outcome = "resolved" -> [boot EXCEPT !.pending = "none"]
                 [] outcome = "fatal" -> [Exit EXCEPT !.pending = "none"]
                 [] outcome = "survived" ->
                        [boot EXCEPT !.pending = "none",
                                     !.pc = IF rev = "keyword"
                                            THEN IndexOf(rev, "setTimeout")
                                            ELSE @]
    /\ ev' = Event("launchSettles", 0, "start", 0)
    /\ UNCHANGED startupFrame

\* bot.telegram.sendMessage(CHAT_ID, startupMessage, ...) is called and
\* awaited, index.js:253, :557
StartupMessage ==
    /\ Statement = "startupMessage"
    /\ boot' = [Advance EXCEPT !.telegram = TRUE, !.pending = "message"]
    /\ ev' = Event("startupMessage", 0, "start", 0)
    /\ UNCHANGED startupFrame

\* the promise of the start-up message settles: a rejection is caught by the
\* keyword revision (index.js:254-256) and ends the guarded one (:566-569)
MessageSettles(ok) ==
    /\ AtEventLoop
    /\ boot.pending = "message"
    /\ boot' = IF ~ok /\ rev = "guarded" THEN [Exit EXCEPT !.pending = "none"]
               ELSE [boot EXCEPT !.pending = "none"]
    /\ ev' = Event("messageSettles", 0, "start", 0)
    /\ UNCHANGED startupFrame

\* setTimeout(checkStock, 5000) and the one of keepAlive, index.js:262-266,
\* :562-563
SetTimeout ==
    /\ Statement = "setTimeout"
    /\ boot' = Advance
    /\ ev' = Event("setTimeout", 0, "start", 0)
    /\ UNCHANGED startupFrame

\* a timer set by setInterval fires while the start is at the event loop, its
\* awaits pending or its last statement run: checkStock issues its fetch
\* (index.js:77, :370, unnamed/part_000:15, index.json:9)
FirstTick ==
    /\ AtEventLoop
    /\ boot.timers
    /\ ~boot.fetched
    /\ boot' = [boot EXCEPT !.fetched = TRUE]
    /\ ev' = Event("start", 0, "interval", 0)
    /\ UNCHANGED startupFrame

StartupNext ==
    \/ ValidateBot
    \/ ValidateKey
    \/ \E throws \in BOOLEAN : NewTelegraf(throws)
    \/ SetWebhook
    \/ \E outcome \in {"resolved", "survived", "fatal"} : WebhookSettles(outcome)
    \/ SetInterval
    \/ Listen
    \/ Launch
    \/ \E outcome \in {"resolved", "survived", "fatal"} : LaunchSettles(outcome)
    \/ StartupMessage
    \/ \E ok \in BOOLEAN : MessageSettles(ok)
    \/ SetTimeout
    \/ FirstTick

SpecStartup == StartupInit /\ [][StartupNext]_vars

-----------------------------------------------------------------------------
(* C13 *)

\* a value that the claim requires of the program is absent
ConfigMissing ==
    \/ ~boot.token
    \/ ~boot.chat
    \/ rev \in {"keyword", "guarded"} /\ ~boot.key

\* C13 as stated: a process started with a required value absent schedules no
\* timer, does not listen, issues no fetch and calls no Telegram method.
C13_AsClaimed ==
    ConfigMissing =>
        ~(boot.timers \/ boot.listening \/ boot.fetched \/ boot.telegram)

-----------------------------------------------------------------------------
(* checkStock of the two earliest revisions: unnamed/part_000:13-34 and      *)
(* index.json:7-32                                                          *)

\* if (data.status === 422), unnamed/part_000:22, index.json:20
SoldOutStatus == 422

\* data.status of the parsed answer of /cart/add.js: 422 for a variant that is
\* sold out, 404 for a variant that does not exist, 0 for an answer without
\* the field (the line item of a successful add)
DataStatuses == {SoldOutStatus, 404, 0}

\* the branch that the test of data.status takes
EarlyAvailable(status) == status # SoldOutStatus

EarlyInit ==
    /\ rev \in {"webhook", "polling"}
    /\ lastStockStatus = "unknown"
    /\ isChecking = FALSE
    /\ cyc = [s \in Slots |-> IdleCycle]
    /\ startupPending = FALSE
    /\ chk = [pc |-> "idle", reply |-> "none"]
    /\ tst = [pc |-> "idle", n |-> 0]
    /\ started = 0
    /\ alerts = 0
    /\ hist = <<>>
    /\ ev = [op |-> "init", slot |-> 0, caller |-> "none", length |-> 0]
    /\ owed = FALSE
    /\ SideInit
    /\ html = <<>>
    /\ inStock = [called |-> FALSE, value |-> FALSE]

\* what checkStock of these revisions leaves alone: they keep no state
earlyFrame == <<rev, lastStockStatus, isChecking, startupPending, chk, tst, owed,
                sideVars, classVars>>

\* setInterval(checkStock, 60_000) fires (unnamed/part_000:41,
\* index.json:34-35): the POST is issued and awaited (unnamed/part_000:15-19,
\* index.json:9-17).  checkStock tests no flag and its fetch has no timeout:
\* a tick starts an invocation whatever the invocations before it are doing.
EarlyTick ==
    /\ \E s \in Slots : cyc[s].pc = "idle"
    /\ started < MaxSeq
    /\ cyc' = [cyc EXCEPT ![FreeSlot] =
                  [pc |-> "headers", caller |-> "interval", timer |-> FALSE,
                   atStart |-> lastStockStatus, seq |-> started + 1]]
    /\ started' = started + 1
    /\ ev' = Event("start", FreeSlot, "interval", 0)
    /\ UNCHANGED <<alerts, hist, earlyFrame>>

\* fetch settles: a rejection goes to the catch block, which logs
\* (unnamed/part_000:31-33, index.json:29-31); otherwise res.json() is awaited
EarlyResponse(s, ok) ==
    /\ cyc[s].pc = "headers"
    /\ cyc' = [cyc EXCEPT ![s] = IF ok THEN [@ EXCEPT !.pc = "body"] ELSE IdleCycle]
    /\ ev' = Event(IF ok THEN "headersOk" ELSE "networkError", s, cyc[s].caller, 0)
    /\ UNCHANGED <<started, alerts, hist, earlyFrame>>

\* res.json() rejects: the body is not JSON
EarlyJsonRejects(s) ==
    /\ cyc[s].pc = "body"
    /\ cyc' = [cyc EXCEPT ![s] = IdleCycle]
    /\ ev' = Event("parseError", s, cyc[s].caller, 0)
    /\ UNCHANGED <<started, alerts, hist, earlyFrame>>

\* res.json() resolves with data: 422 is logged as sold out; for anything else
\* bot.telegram.sendMessage is called and awaited (unnamed/part_000:20-30,
\* index.json:18-28)
EarlyData(s, status) ==
    /\ cyc[s].pc = "body"
    /\ hist' = Append(hist, [inStock |-> EarlyAvailable(status),
                             notified |-> EarlyAvailable(status),
                             threw |-> FALSE, before |-> "none", at |-> now,
                             seq |-> cyc[s].seq])
    /\ IF EarlyAvailable(status)
       THEN /\ alerts' = alerts + 1
            /\ cyc' = [cyc EXCEPT ![s].pc = "send"]
            /\ ev' = Event("notify", s, cyc[s].caller, 0)
       ELSE /\ alerts' = alerts
            /\ cyc' = [cyc EXCEPT ![s] = IdleCycle]
            /\ ev' = Event("soldOut", s, cyc[s].caller, 0)
    /\ UNCHANGED <<started, earlyFrame>>

\* sendMessage settles; a rejection goes to the catch block, which logs
EarlySendSettles(s, ok) ==
    /\ cyc[s].pc = "send"
    /\ cyc' = [cyc EXCEPT ![s] = IdleCycle]
    /\ ev' = Event(IF ok THEN "sent" ELSE "sendFailed", s, cyc[s].caller, 0)
    /\ UNCHANGED <<started, alerts, hist, earlyFrame>>

EarlyNext ==
    \/ EarlyTick
    \/ \E s \in Slots :
          \/ \E ok \in BOOLEAN : EarlyResponse(s, ok)
          \/ EarlyJsonRejects(s)
          \/ \E status \in DataStatuses : EarlyData(s, status)
          \/ \E ok \in BOOLEAN : EarlySendSettles(s, ok)

SpecEarly == EarlyInit /\ [][EarlyNext]_vars

-----------------------------------------------------------------------------
(* C18 *)

\* C18 as stated: of two polls in a row that both observe 'available', the
\* second sends no message; a poll that observes 422 sends none.
C18_AsClaimed ==
    \A i \in 1..Len(hist) :
        /\ ~hist[i].inStock => ~hist[i].notified
        /\ (i > 1 /\ hist[i - 1].inStock /\ hist[i].inStock) => ~hist[i].notified

-----------------------------------------------------------------------------
(* C22 *)

\* the steps in which a checkStock invocation ends
ExitOps == {"sent", "sendFailed", "soldOut", "stillAvailable", "tooLarge",
            "httpError", "networkError", "timeout"}

\* C22: in the guarded revision isChecking is true exactly while a checkStock
\* invocation is in flight: the step that starts one sets the flag with the
\* fetch issued, every step that ends one (by a classification, a resolved or
\* rejected send, a failed fetch, an abort by the timer) leaves it false, and a
\* call is skipped only while an invocation is in flight.
C22_FlagIffInFlight ==
    [][rev = "guarded" =>
          /\ isChecking' <=> (Active' # {})
          /\ ev'.op = "start" => (Active = {} /\ cyc'[ev'.slot].pc = "headers")
          /\ ev'.op \in ExitOps => (Active = {ev'.slot} /\ ~isChecking')
          /\ ev'.op = "skip" => Active # {}
      ]_vars

\* a tick that starts a cycle after the cycle before it ended in its catch block
C22_Witness ==
    /\ rev = "guarded"
    /\ ev.op = "start"
    /\ ev.caller = "interval"
    /\ started = 2
    /\ hist = <<>>
    /\ isChecking
    /\ ~startupPending

-----------------------------------------------------------------------------
(* C23 *)

\* the requests that carried the configured key
AuthLog == SelectSeq(HealthLog, LAMBDA q : q.key = "good")

\* lastHealthCheck after the first n requests of a log, had the route received
\* these requests only
RECURSIVE AloneLast(_, _)
AloneLast(log, n) ==
    IF n = 0 THEN 0
    ELSE IF log[n].t - AloneLast(log, n - 1) < HealthCooldown
         THEN AloneLast(log, n - 1)
         ELSE log[n].t

\* C23 as stated: the requests with the configured key are answered as they
\* would be had the requests with a wrong or a missing key never been made.
C23_AsClaimed ==
    \A n \in 1..Len(AuthLog) :
        AuthLog[n].code =
            IF AuthLog[n].t - AloneLast(AuthLog, n - 1) < HealthCooldown
            THEN 429 ELSE 200

-----------------------------------------------------------------------------
(* C24 *)

\* the record of the classified cycle that started last
LastStarted ==
    hist[CHOOSE i \in 1..Len(hist) : \A j \in 1..Len(hist) : hist[j].seq <= hist[i].seq]

\* C24 as stated: in the keyword revision no cycle classifies and notifies
\* after a cycle that started later has stored its result, and when no cycle
\* is in flight (and no /test has written the status) the stored status is the
\* classification of the classified cycle that started last.
C24_AsClaimed ==
    rev = "keyword" =>
        /\ \A j \in 1..Len(hist) :
              hist[j].notified => \A i \in 1..(j - 1) : hist[i].seq < hist[j].seq
        /\ (AllIdle /\ hist # <<>> /\ tst.n = 0) =>
              lastStockStatus = IF LastStarted.inStock THEN "available" ELSE "sold_out"

-----------------------------------------------------------------------------
(* Signals: index.js:269-271 (keyword) and :571-572 (guarded)               *)

Signals == {"SIGINT", "SIGTERM"}

\* The process receives a signal.  The first signal of a name runs the
\* listener, () => bot.stop(name), which process.once then removes; with a
\* listener installed the signal does not end the process, and nothing in the
\* listener clears a timer, closes the server or calls process.exit.  What
\* bot.stop does is not in the repository: it returns, or it throws (on a bot
\* that is not running) and, the listener having no try, the uncaught
\* exception ends the process.  A signal of a name whose listener is gone
\* ends the process.
Signal(sig, throws) ==
    /\ ~boot.exited
    /\ throws => sig \notin boot.signals
    /\ boot' = IF sig \in boot.signals \/ throws
               THEN [boot EXCEPT !.exited = TRUE]
               ELSE [boot EXCEPT !.signals = @ \cup {sig}]
    /\ ev' = Event("signal", 0, "os", 0)
    /\ UNCHANGED <<rev, lastStockStatus, isChecking, cyc, startupPending, chk, tst,
                   started, alerts, hist, owed, now, lastHealthCheck, reqs, classVars>>

\* The running process with its signals: what runs, runs while the process
\* lives
ShutdownNext ==
    \/ \E sig \in Signals, throws \in BOOLEAN : Signal(sig, throws)
    \/ ~boot.exited /\ IntervalTick(MaxStarts)
    \/ ~boot.exited /\ StartupTimeout(MaxStarts)
    \/ ~boot.exited /\ CheckCommand
    \/ ~boot.exited /\ CheckCall(MaxStarts)
    \/ ~boot.exited /\ CheckReplyFails
    \/ ~boot.exited /\ \E admin \in BOOLEAN : TestCommand(admin)
    \/ ~boot.exited /\ TestSend
    \/ ~boot.exited /\ TestReplyFails
    \/ ~boot.exited /\ \E ok \in BOOLEAN : TestSendSettles(ok)
    \/ ~boot.exited /\ \E s \in Slots :
          \/ \E ok \in BOOLEAN : HeadersArrive(s, ok)
          \/ FetchRejects(s)
          \/ TimerFires(s)
          \/ BodyRejects(s)
          \/ \E body \in Bodies(rev) : BodyArrives(s, body)
          \/ \E ok \in BOOLEAN : SendSettles(s, ok)

SpecShutdown == Init /\ [][ShutdownNext]_vars

-----------------------------------------------------------------------------
(* C21 *)

\* C21 as stated: once the process has received SIGINT or SIGTERM the
\* interval timer starts no poll cycle.
C21_AsClaimed ==
    [][boot.signals # {} => ~(ev'.op = "start" /\ ev'.caller = "interval")]_vars

====
